---- MODULE Spec2Model ----
(***************************************************************************)
(* Partition of an n x m grid of cell costs among four developers:         *)
(* brute_force.py (exhaustive search), greedy.py (greedy construction)     *)
(* and two_stage.py (block split + boundary refinement).                   *)
(*                                                                         *)
(* Cells are the source's 0-based pairs <<i, j>>.  A matrix is a sequence  *)
(* of rows, so matrix[i][j] of the source is matrix[i + 1][j + 1] here.    *)
(* A list of four regions is a function on 0..3 of sequences of cells.     *)
(***************************************************************************)
EXTENDS Integers, Sequences, FiniteSets, TLC

VARIABLES
    matrix,                 \* the input grid of all three algorithms
    pc,                     \* position of the running call
    labels,                 \* brute force: the labeling the for loop is at
    combinations_checked,   \* brute force: counter
    best_regions,           \* brute force: best valid regions so far, or None
    best_objective,         \* brute force: its objective, or float("inf")
    bf_result,              \* brute force: the returned pair
    g_regions,              \* greedy: regions
    g_sums,                 \* greedy: sums
    g_assigned,             \* greedy: the cells whose assigned[i][j] is True
    g_total_assigned,       \* greedy: total_assigned
    g_iter,                 \* greedy: allocation_iter_count
    g_early_exit,           \* greedy: the loop was left by its break
    g_result,               \* greedy: the returned pair
    ts_regions,             \* two-stage: regions
    ts_iterations,          \* two-stage: iterations
    ts_max_iterations,      \* two-stage: the max_iterations argument
    ts_stage1,              \* two-stage: the regions Stage 1 built
    ts_result,              \* two-stage: the returned pair
    cc_region,              \* check_connected: the region_coords argument
    cc_n,                   \* check_connected: n
    cc_m,                   \* check_connected: m
    cc_result               \* check_connected: the returned value

vars == <<matrix, pc, labels, combinations_checked, best_regions, best_objective,
          bf_result, g_regions, g_sums, g_assigned, g_total_assigned, g_iter,
          g_early_exit, g_result, ts_regions, ts_iterations, ts_max_iterations,
          ts_stage1, ts_result, cc_region, cc_n, cc_m, cc_result>>

bf_vars == <<labels, combinations_checked, best_regions, best_objective, bf_result>>
g_vars == <<g_regions, g_sums, g_assigned, g_total_assigned, g_iter, g_early_exit,
            g_result>>
ts_vars == <<ts_regions, ts_iterations, ts_max_iterations, ts_stage1, ts_result>>
cc_vars == <<cc_region, cc_n, cc_m, cc_result>>

---------------------------------------------------------------------------
(* Bounds of the model *)

MaxCells == 5         \* brute force is explored on every grid of at most this many cells
MaxGreedyCells == 9   \* greedy is explored on every grid of at most this many cells
MaxIter == 2          \* two-stage: explored max_iterations are -1..MaxIter and the default
MaxTwoStageCells == 8  \* two-stage is explored on every grid of at most this many cells
MaxRegion == 4        \* check_connected: cells of the explored regions
MaxSide == 3          \* check_connected: rows and columns of the explored grids
CostValues == 0 .. 1  \* the explored cell costs

---------------------------------------------------------------------------
(* Program constants *)

Agents == 0 .. 3
MaxBruteForceCells == 16
DefaultMaxIterations == 100
Infinity == -1      \* float("inf"); every objective value is >= 0
directions == << <<-1, 0>>, <<1, 0>>, <<0, -1>>, <<0, 1>> >>

EmptyRegions == [dev \in Agents |-> << >>]
NoneRegions == << >>
NotReturned == [returned |-> FALSE, regions |-> EmptyRegions, count |-> 0]
Returned(regions, count) == [returned |-> TRUE, regions |-> regions, count |-> count]

---------------------------------------------------------------------------
(* Shared helpers *)

Range(s) == {s[k] : k \in 1 .. Len(s)}

RECURSIVE Pow4(_)
Pow4(k) == IF k <= 0 THEN 1 ELSE 4 * Pow4(k - 1)

\* IsEmptyGrid with the test of the first row forgotten
IsEmptyGrid_RowsOnly(mx) == Len(mx) = 0

IsEmptyGrid(mx) == Len(mx) = 0 \/ Len(mx[1]) = 0
NumRows(mx) == Len(mx)
NumCols(mx) == Len(mx[1])
Cost(mx, cell) == mx[cell[1] + 1][cell[2] + 1]
InBounds(cell, n, m) == 0 <= cell[1] /\ cell[1] < n /\ 0 <= cell[2] /\ cell[2] < m
AllCells(n, m) == {<<i, j>> : i \in 0 .. n - 1, j \in 0 .. m - 1}

RECURSIVE SumCosts(_, _)
SumCosts(mx, region) ==
    IF region = << >> THEN 0 ELSE Cost(mx, Head(region)) + SumCosts(mx, Tail(region))

MaxOf(sums) == CHOOSE x \in {sums[d] : d \in Agents} : \A d \in Agents : sums[d] <= x
MinOf(sums) == CHOOSE x \in {sums[d] : d \in Agents} : \A d \in Agents : x <= sums[d]

LessThan(a, b) == b = Infinity \/ a < b

---------------------------------------------------------------------------
(* brute_force.py *)

labels_to_regions(lbls, n, m) ==
    [dev \in Agents |->
        LET idxs == SelectSeq([k \in 1 .. Len(lbls) |-> k - 1],
                              LAMBDA idx : lbls[idx + 1] = dev)
        IN [k \in 1 .. Len(idxs) |-> <<idxs[k] \div m, idxs[k] % m>>]]

RECURSIVE NewNeighbours(_, _, _, _, _, _)
NewNeighbours(cell, k, region_set, visited, n, m) ==
    IF k > Len(directions) THEN << >>
    ELSE LET nb == <<cell[1] + directions[k][1], cell[2] + directions[k][2]>>
             rest == NewNeighbours(cell, k + 1, region_set, visited, n, m)
         IN IF InBounds(nb, n, m) /\ nb \in region_set /\ nb \notin visited
            THEN <<nb>> \o rest
            ELSE rest

RECURSIVE BfsVisit(_, _, _, _, _)
BfsVisit(queue, visited, region_set, n, m) ==
    IF queue = << >> THEN visited
    ELSE LET new == NewNeighbours(Head(queue), 1, region_set, visited, n, m)
         IN BfsVisit(Tail(queue) \o new, visited \cup Range(new), region_set, n, m)

\* check_connected with the trivial case widened to two cells
check_connected_UpToTwo(region_coords, n, m) ==
    IF Len(region_coords) <= 2 THEN TRUE
    ELSE Cardinality(BfsVisit(<<region_coords[1]>>, {region_coords[1]},
                              Range(region_coords), n, m)) = Len(region_coords)

check_connected(region_coords, n, m) ==
    IF Len(region_coords) <= 1 THEN TRUE
    ELSE Cardinality(BfsVisit(<<region_coords[1]>>, {region_coords[1]},
                              Range(region_coords), n, m)) = Len(region_coords)

\* all_regions_connected looking at region 0 only
all_regions_connected_FirstOnly(regions, n, m) ==
    ~(Len(regions[0]) > 0 /\ ~check_connected(regions[0], n, m))

all_regions_connected(regions, n, m) ==
    \A dev \in Agents : ~(Len(regions[dev]) > 0 /\ ~check_connected(regions[dev], n, m))

RegionSums(mx, regions) == [dev \in Agents |-> SumCosts(mx, regions[dev])]

calculate_objective_value(mx, regions) ==
    LET sums == RegionSums(mx, regions) IN MaxOf(sums) - MinOf(sums)

\* HasNextLabels looking at the last cell's label only
HasNextLabels_LastOnly(lbls) == lbls[Len(lbls)] < 3

HasNextLabels(lbls) == \E k \in 1 .. Len(lbls) : lbls[k] < 3

NextLabels(lbls) ==
    LET k == CHOOSE k \in 1 .. Len(lbls) :
                 lbls[k] < 3 /\ \A q \in k + 1 .. Len(lbls) : lbls[q] = 3
    IN [q \in 1 .. Len(lbls) |-> IF q < k THEN lbls[q] ELSE IF q = k THEN lbls[k] + 1 ELSE 0]

MaxCombos == Pow4(MaxCells)

\* TooLarge with the cutoff itself rejected
TooLarge_Inclusive(total_cells) == total_cells >= MaxBruteForceCells

TooLarge(total_cells) == total_cells > MaxBruteForceCells

\* IsValidCandidate without the skip of labelings that leave a developer empty
IsValidCandidate_NoEmptySkip(regions, n, m) == all_regions_connected(regions, n, m)

IsValidCandidate(regions, n, m) ==
    /\ ~(\E dev \in Agents : Len(regions[dev]) = 0)
    /\ all_regions_connected(regions, n, m)

\* IsBetter with the comparison turned round
IsBetter_Larger(objective_value, best) == best = Infinity \/ objective_value > best

\* IsBetter taking an equal objective too
IsBetter_OrEqual(objective_value, best) == best = Infinity \/ objective_value <= best

IsBetter(objective_value, best) == LessThan(objective_value, best)

BFStart ==
    /\ pc = "idle"
    /\ ~bf_result.returned
    /\ IF IsEmptyGrid(matrix)
       THEN /\ bf_result' = Returned(EmptyRegions, 0)
            /\ pc' = "bf_done"
            /\ UNCHANGED <<labels, combinations_checked, best_regions, best_objective>>
       ELSE IF TooLarge(NumRows(matrix) * NumCols(matrix))
       THEN /\ bf_result' = Returned(EmptyRegions, 0)
            /\ pc' = "bf_done"
            /\ UNCHANGED <<labels, combinations_checked, best_regions, best_objective>>
       ELSE /\ best_regions' = NoneRegions
            /\ best_objective' = Infinity
            /\ combinations_checked' = 0
            /\ labels' = [k \in 1 .. NumRows(matrix) * NumCols(matrix) |-> 0]
            /\ pc' = "bf_enum"
            /\ UNCHANGED bf_result
    /\ UNCHANGED <<matrix, g_vars, ts_vars, cc_vars>>

\* One iteration of the for loop; cap bounds how far the enumeration is explored.
BFStep(cap) ==
    /\ pc = "bf_enum"
    /\ combinations_checked < cap
    /\ LET n == NumRows(matrix)
           m == NumCols(matrix)
           regions == labels_to_regions(labels, n, m)
           better == /\ IsValidCandidate(regions, n, m)
                     /\ IsBetter(calculate_objective_value(matrix, regions), best_objective)
       IN /\ combinations_checked' = combinations_checked + 1
          /\ best_objective' = IF better THEN calculate_objective_value(matrix, regions)
                                         ELSE best_objective
          /\ best_regions' = IF better THEN regions ELSE best_regions
    /\ IF HasNextLabels(labels)
       THEN labels' = NextLabels(labels) /\ pc' = "bf_enum"
       ELSE labels' = labels /\ pc' = "bf_return"
    /\ UNCHANGED <<matrix, bf_result, g_vars, ts_vars, cc_vars>>

BFReturn ==
    /\ pc = "bf_return"
    /\ bf_result' = IF best_regions = NoneRegions
                    THEN Returned(EmptyRegions, combinations_checked)
                    ELSE Returned(best_regions, combinations_checked)
    /\ pc' = "bf_done"
    /\ UNCHANGED <<matrix, labels, combinations_checked, best_regions, best_objective,
                   g_vars, ts_vars, cc_vars>>

---------------------------------------------------------------------------
(* greedy.py *)

start_positions(n, m) ==
    [dev \in Agents |-> CASE dev = 0 -> <<0, 0>>
                          [] dev = 1 -> <<0, m - 1>>
                          [] dev = 2 -> <<n - 1, 0>>
                          [] dev = 3 -> <<n - 1, m - 1>>]

\* get_developer_with_min_sum taking the last developer of the smallest sum
get_developer_with_min_sum_Last(sums) ==
    CHOOSE dev \in Agents :
        sums[dev] = MinOf(sums) /\ \A d \in Agents : d > dev => sums[d] # MinOf(sums)

get_developer_with_min_sum(sums) ==
    CHOOSE dev \in Agents :
        sums[dev] = MinOf(sums) /\ \A d \in Agents : d < dev => sums[d] # MinOf(sums)

\* get_adjacent_free_cells without the test that the cell is free
get_adjacent_free_cells_AnyCell(region, assigned, n, m) ==
    {nb \in AllCells(n, m) :
        \E k \in 1 .. Len(region), d \in 1 .. Len(directions) :
            nb = <<region[k][1] + directions[d][1], region[k][2] + directions[d][2]>>}

\* The source returns list(adjacent) of a set: the cells, in an order this model
\* leaves open (see choose_best_cell).
get_adjacent_free_cells(region, assigned, n, m) ==
    {nb \in AllCells(n, m) :
        /\ nb \notin assigned
        /\ \E k \in 1 .. Len(region), d \in 1 .. Len(directions) :
               nb = <<region[k][1] + directions[d][1], region[k][2] + directions[d][2]>>}

\* find_developer_with_adjacent_cells that finds nobody
find_developer_with_adjacent_cells_Nobody(regions, assigned, n, m) == 0 - 1

\* -1 when no developer has an adjacent free cell
find_developer_with_adjacent_cells(regions, assigned, n, m) ==
    IF \A dev \in Agents : get_adjacent_free_cells(regions[dev], assigned, n, m) = {}
    THEN -1
    ELSE CHOOSE dev \in Agents :
             /\ get_adjacent_free_cells(regions[dev], assigned, n, m) # {}
             /\ \A d \in Agents :
                    d < dev => get_adjacent_free_cells(regions[d], assigned, n, m) = {}

calculate_imbalance(sums) == MaxOf(sums) - MinOf(sums)

ImbalanceWith(mx, sums, target_dev, cell) ==
    calculate_imbalance([sums EXCEPT ![target_dev] = @ + Cost(mx, cell)])

\* The cells choose_best_cell can return: the first cell of the list with the
\* strictly smallest imbalance; the list's order is the set's iteration order,
\* so any cell of smallest imbalance can be the first.
choose_best_cell(adjacent_cells, mx, sums, target_dev) ==
    {cell \in adjacent_cells :
        \A other \in adjacent_cells :
            ImbalanceWith(mx, sums, target_dev, cell)
                <= ImbalanceWith(mx, sums, target_dev, other)}

SeedRegions(n, m) == [dev \in Agents |-> <<start_positions(n, m)[dev]>>]
SeedSums(mx, n, m) == [dev \in Agents |-> Cost(mx, start_positions(n, m)[dev])]
SeedTotalAssigned == 4

AppendCell(regions, dev, cell) == [regions EXCEPT ![dev] = Append(@, cell)]

GreedyStart(from) ==
    /\ pc \in from
    /\ ~g_result.returned
    /\ IF IsEmptyGrid(matrix)
       THEN /\ g_result' = Returned(EmptyRegions, 0)
            /\ pc' = "g_done"
            /\ UNCHANGED <<g_regions, g_sums, g_assigned, g_total_assigned, g_iter,
                           g_early_exit>>
       ELSE LET n == NumRows(matrix)
                m == NumCols(matrix)
            IN /\ g_regions' = SeedRegions(n, m)
               /\ g_sums' = SeedSums(matrix, n, m)
               /\ g_assigned' = {start_positions(n, m)[dev] : dev \in Agents}
               /\ g_total_assigned' = SeedTotalAssigned
               /\ g_iter' = 0
               /\ g_early_exit' = FALSE
               /\ pc' = "g_loop"
               /\ UNCHANGED g_result
    /\ UNCHANGED <<matrix, bf_vars, ts_vars, cc_vars>>

GreedyIter ==
    /\ pc = "g_loop"
    /\ g_total_assigned < NumRows(matrix) * NumCols(matrix)
    /\ g_iter' = g_iter + 1
    /\ LET n == NumRows(matrix)
           m == NumCols(matrix)
           min_dev == get_developer_with_min_sum(g_sums)
           min_adjacent == get_adjacent_free_cells(g_regions[min_dev], g_assigned, n, m)
           target_dev == IF min_adjacent # {} THEN min_dev
                         ELSE find_developer_with_adjacent_cells(g_regions, g_assigned, n, m)
       IN IF target_dev = -1
          THEN /\ g_early_exit' = TRUE
               /\ pc' = "g_return"
               /\ UNCHANGED <<g_regions, g_sums, g_assigned, g_total_assigned>>
          ELSE \E best_cell \in choose_best_cell(
                       get_adjacent_free_cells(g_regions[target_dev], g_assigned, n, m),
                       matrix, g_sums, target_dev) :
                  /\ g_regions' = AppendCell(g_regions, target_dev, best_cell)
                  /\ g_sums' = [g_sums EXCEPT ![target_dev] = @ + Cost(matrix, best_cell)]
                  /\ g_assigned' = g_assigned \cup {best_cell}
                  /\ g_total_assigned' = g_total_assigned + 1
                  /\ pc' = "g_loop"
                  /\ UNCHANGED g_early_exit
    /\ UNCHANGED <<matrix, g_result, bf_vars, ts_vars, cc_vars>>

GreedyReturn ==
    /\ \/ pc = "g_return"
       \/ pc = "g_loop" /\ ~(g_total_assigned < NumRows(matrix) * NumCols(matrix))
    /\ g_result' = Returned(g_regions, g_iter)
    /\ pc' = "g_done"
    /\ UNCHANGED <<matrix, g_regions, g_sums, g_assigned, g_total_assigned, g_iter,
                   g_early_exit, bf_vars, ts_vars, cc_vars>>

---------------------------------------------------------------------------
(* two_stage.py *)

RowMajorCells(n, m) == [k \in 1 .. n * m |-> <<(k - 1) \div m, (k - 1) % m>>]

\* RegionSize with the extra cells given to the last regions
RegionSize_ExtraToLast(total_cells, dev) ==
    (total_cells \div 4) + (IF dev >= 4 - (total_cells % 4) THEN 1 ELSE 0)

RegionSize(total_cells, dev) ==
    (total_cells \div 4) + (IF dev < total_cells % 4 THEN 1 ELSE 0)

RECURSIVE StartIdx(_, _)
StartIdx(total_cells, dev) ==
    IF dev = 0 THEN 0
    ELSE StartIdx(total_cells, dev - 1) + RegionSize(total_cells, dev - 1)

create_initial_allocation(mx) ==
    LET n == NumRows(mx)
        m == NumCols(mx)
        total_cells == n * m
        all_cells == RowMajorCells(n, m)
    IN [dev \in Agents |->
           SubSeq(all_cells, StartIdx(total_cells, dev) + 1,
                  StartIdx(total_cells, dev) + RegionSize(total_cells, dev))]

HasNeighbourIn(cell, region_set, n, m) ==
    \E d \in 1 .. Len(directions) :
        LET nb == <<cell[1] + directions[d][1], cell[2] + directions[d][2]>>
        IN InBounds(nb, n, m) /\ nb \in region_set

\* The source returns list(boundary_cells) of a set: the cells, in an order this
\* model leaves open (see BestMoves).
find_boundary_cells(region1, region2, n, m) ==
    {c \in Range(region1) : HasNeighbourIn(c, Range(region2), n, m)}
        \cup {c \in Range(region2) : HasNeighbourIn(c, Range(region1), n, m)}

calculate_current_imbalance(mx, regions) ==
    LET sums == RegionSums(mx, regions) IN MaxOf(sums) - MinOf(sums)

\* simulate_move that does not take the cell's cost off the region it leaves
simulate_move_NoRemove(mx, regions, cell, from_dev, to_dev) ==
    LET sums == RegionSums(mx, regions)
        moved == [dev \in Agents |->
                     sums[dev] + (IF dev = to_dev THEN Cost(mx, cell) ELSE 0)]
    IN MaxOf(moved) - MinOf(moved)

simulate_move(mx, regions, cell, from_dev, to_dev) ==
    LET sums == RegionSums(mx, regions)
        moved == [dev \in Agents |->
                     sums[dev] - (IF dev = from_dev THEN Cost(mx, cell) ELSE 0)
                               + (IF dev = to_dev THEN Cost(mx, cell) ELSE 0)]
    IN MaxOf(moved) - MinOf(moved)

\* The relocations one iteration simulates, with the pair that proposes each.
CandidateMoves(mx, regions, n, m) ==
    {[dev1 |-> x[1], dev2 |-> x[2], cell |-> x[3],
      from_dev |-> IF x[3] \in Range(regions[x[1]]) THEN x[1] ELSE x[2],
      to_dev |-> IF x[3] \in Range(regions[x[1]]) THEN x[2] ELSE x[1]] :
        x \in {y \in Agents \X Agents \X AllCells(n, m) :
                  /\ y[1] # y[2]
                  /\ y[3] \in find_boundary_cells(regions[y[1]], regions[y[2]], n, m)}}

\* MoveImprovement with the difference turned round
MoveImprovement_Reversed(mx, regions, mv) ==
    simulate_move(mx, regions, mv.cell, mv.from_dev, mv.to_dev)
        - calculate_current_imbalance(mx, regions)

\* MoveImprovement that counts a move of no effect as an improvement of 1
MoveImprovement_PlusOne(mx, regions, mv) ==
    calculate_current_imbalance(mx, regions)
        - simulate_move(mx, regions, mv.cell, mv.from_dev, mv.to_dev) + 1

MoveImprovement(mx, regions, mv) ==
    calculate_current_imbalance(mx, regions)
        - simulate_move(mx, regions, mv.cell, mv.from_dev, mv.to_dev)

PairRank(mv) == 4 * mv.dev1 + mv.dev2

\* The values best_move can have after the scan of all pairs: the first move, in
\* (dev1, dev2) order, of the largest improvement > 0; within a pair the order of
\* the boundary cells is the set's iteration order.  {} when best_move is None.
\* BestMoves taking moves that do not change the imbalance too
BestMoves_NotStrict(mx, regions, n, m) ==
    LET cands == CandidateMoves(mx, regions, n, m)
        improving == {mv \in cands : MoveImprovement(mx, regions, mv) >= 0}
        top == {mv \in improving :
                   \A other \in improving :
                       MoveImprovement(mx, regions, other) <= MoveImprovement(mx, regions, mv)}
    IN {mv \in top : \A other \in top : PairRank(mv) <= PairRank(other)}

\* BestMoves taking the first improving move, not the largest improvement
BestMoves_FirstImproving(mx, regions, n, m) ==
    LET cands == CandidateMoves(mx, regions, n, m)
        improving == {mv \in cands : MoveImprovement(mx, regions, mv) > 0}
    IN {mv \in improving : \A other \in improving : PairRank(mv) <= PairRank(other)}

BestMoves(mx, regions, n, m) ==
    LET cands == CandidateMoves(mx, regions, n, m)
        improving == {mv \in cands : MoveImprovement(mx, regions, mv) > 0}
        top == {mv \in improving :
                   \A other \in improving :
                       MoveImprovement(mx, regions, other) <= MoveImprovement(mx, regions, mv)}
    IN {mv \in top : \A other \in top : PairRank(mv) <= PairRank(other)}

RECURSIVE RemoveFirst(_, _)
RemoveFirst(region, cell) ==
    IF region = << >> THEN << >>
    ELSE IF Head(region) = cell THEN Tail(region)
    ELSE <<Head(region)>> \o RemoveFirst(Tail(region), cell)

\* ApplyMove that leaves the cell in the region it came from
ApplyMove_NoRemove(regions, mv) ==
    [dev \in Agents |->
        IF dev = mv.to_dev THEN Append(regions[dev], mv.cell) ELSE regions[dev]]

ApplyMove(regions, mv) ==
    [dev \in Agents |->
        IF dev = mv.from_dev THEN RemoveFirst(regions[dev], mv.cell)
        ELSE IF dev = mv.to_dev THEN Append(regions[dev], mv.cell)
        ELSE regions[dev]]

MaxIterChoices == (-1 .. MaxIter) \cup {DefaultMaxIterations}

TSStart(from) ==
    /\ pc \in from
    /\ ~ts_result.returned
    /\ \E max_iterations \in MaxIterChoices : ts_max_iterations' = max_iterations
    /\ IF IsEmptyGrid(matrix)
       THEN /\ ts_result' = Returned(EmptyRegions, 0)
            /\ pc' = "ts_done"
            /\ UNCHANGED <<ts_regions, ts_iterations, ts_stage1>>
       ELSE /\ ts_regions' = create_initial_allocation(matrix)
            /\ ts_stage1' = create_initial_allocation(matrix)
            /\ ts_iterations' = 0
            /\ pc' = "ts_loop"
            /\ UNCHANGED ts_result
    /\ UNCHANGED <<matrix, bf_vars, g_vars, cc_vars>>

TSIter ==
    /\ pc = "ts_loop"
    /\ ts_iterations < ts_max_iterations
    /\ LET moves == BestMoves(matrix, ts_regions, NumRows(matrix), NumCols(matrix))
       IN IF moves = {}
          THEN /\ ts_regions' = ts_regions
               /\ pc' = "ts_return"
          ELSE /\ \E best_move \in moves : ts_regions' = ApplyMove(ts_regions, best_move)
               /\ pc' = "ts_loop"
    /\ ts_iterations' = ts_iterations + 1
    /\ UNCHANGED <<matrix, ts_max_iterations, ts_stage1, ts_result, bf_vars, g_vars, cc_vars>>

TSReturn ==
    /\ \/ pc = "ts_return"
       \/ pc = "ts_loop" /\ ~(ts_iterations < ts_max_iterations)
    /\ ts_result' = Returned(ts_regions, ts_iterations)
    /\ pc' = "ts_done"
    /\ UNCHANGED <<matrix, ts_regions, ts_iterations, ts_max_iterations, ts_stage1,
                   bf_vars, g_vars, cc_vars>>

---------------------------------------------------------------------------
(* check_connected applied to a region of its own *)

CCRun ==
    /\ pc = "idle"
    /\ cc_result' = check_connected(cc_region, cc_n, cc_m)
    /\ pc' = "cc_done"
    /\ UNCHANGED <<matrix, cc_region, cc_n, cc_m, bf_vars, g_vars, ts_vars>>

---------------------------------------------------------------------------
(* Inputs *)

Grids(n, m) == [1 .. n -> [1 .. m -> CostValues]]
UniformGrid(n, m) == [i \in 1 .. n |-> [j \in 1 .. m |-> 1]]

EmptyMatrices == {<< >>, << << >> >>, << << >>, << >> >>}

SmallDims == {d \in (1 .. MaxCells) \X (1 .. MaxCells) : d[1] * d[2] <= MaxCells}
SmallMatrices == UNION {Grids(d[1], d[2]) : d \in SmallDims}

LargeDims == {<<4, 4>>, <<1, MaxBruteForceCells>>,
              <<1, MaxBruteForceCells + 1>>, <<MaxBruteForceCells + 1, 1>>}
LargeMatrices == {UniformGrid(d[1], d[2]) : d \in LargeDims}

InitRest ==
    /\ pc = "idle"
    /\ labels = << >>
    /\ combinations_checked = 0
    /\ best_regions = NoneRegions
    /\ best_objective = Infinity
    /\ bf_result = NotReturned
    /\ g_regions = EmptyRegions
    /\ g_sums = [dev \in Agents |-> 0]
    /\ g_assigned = {}
    /\ g_total_assigned = 0
    /\ g_iter = 0
    /\ g_early_exit = FALSE
    /\ g_result = NotReturned
    /\ ts_regions = EmptyRegions
    /\ ts_iterations = 0
    /\ ts_max_iterations = 0
    /\ ts_stage1 = EmptyRegions
    /\ ts_result = NotReturned
    /\ cc_region = << >>
    /\ cc_n = 0
    /\ cc_m = 0
    /\ cc_result = FALSE

Init ==
    /\ matrix \in SmallMatrices \cup EmptyMatrices \cup LargeMatrices
    /\ InitRest

Next ==
    \/ BFStart
    \/ BFStep(MaxCombos)
    \/ BFReturn
    \/ GreedyStart({"bf_done"})
    \/ GreedyIter
    \/ GreedyReturn
    \/ TSStart({"bf_done", "g_done"})
    \/ TSIter
    \/ TSReturn

Spec == Init /\ [][Next]_vars

GreedyDims ==
    {d \in (1 .. MaxGreedyCells) \X (1 .. MaxGreedyCells) : d[1] * d[2] <= MaxGreedyCells}
GreedyMatrices == UNION {Grids(d[1], d[2]) : d \in GreedyDims}

\* The grid of the 2x2 example
Example2x2 == << <<1, 2>>, <<3, 4>> >>

InitGreedy ==
    /\ matrix \in GreedyMatrices \cup EmptyMatrices \cup {Example2x2}
    /\ InitRest

NextGreedy ==
    \/ GreedyStart({"idle"})
    \/ GreedyIter
    \/ GreedyReturn

SpecGreedy == InitGreedy /\ [][NextGreedy]_vars

\* two_stage_allocation alone, on every grid of at most MaxTwoStageCells cells
\* and on the 3x3 and 4x4 grids of the module's own tests.
TwoStageDims ==
    {d \in (1 .. MaxTwoStageCells) \X (1 .. MaxTwoStageCells) :
        d[1] * d[2] <= MaxTwoStageCells}
TwoStageMatrices == UNION {Grids(d[1], d[2]) : d \in TwoStageDims}
Example3x3 == << <<1, 2, 3>>, <<4, 5, 6>>, <<7, 8, 9>> >>
Example4x4 == << <<10, 15, 20, 25>>, <<30, 35, 40, 45>>,
                 <<50, 55, 60, 65>>, <<70, 75, 80, 85>> >>

InitTwoStage ==
    /\ matrix \in TwoStageMatrices \cup EmptyMatrices \cup {Example3x3, Example4x4}
    /\ InitRest

NextTwoStage ==
    \/ TSStart({"idle"})
    \/ TSIter
    \/ TSReturn

SpecTwoStage == InitTwoStage /\ [][NextTwoStage]_vars

\* brute_force_allocation alone on the uniform 3x3 grid, its whole enumeration
Uniform3x3 == [i \in 1 .. 3 |-> [j \in 1 .. 3 |-> 5]]

InitUniform ==
    /\ matrix = Uniform3x3
    /\ InitRest

NextUniform ==
    \/ BFStart
    \/ BFStep(Pow4(NumRows(Uniform3x3) * NumCols(Uniform3x3)))
    \/ BFReturn

SpecUniform == InitUniform /\ [][NextUniform]_vars

\* The lists of pairwise different cells of an n x m grid, of at most MaxRegion cells
DistinctSeqs(n, m) ==
    UNION {{r \in [1 .. len -> AllCells(n, m)] :
               \A a, b \in 1 .. len : a # b => r[a] # r[b]} : len \in 0 .. MaxRegion}

InitCC ==
    /\ cc_n \in 1 .. MaxSide
    /\ cc_m \in 1 .. MaxSide
    /\ cc_region \in DistinctSeqs(cc_n, cc_m)
    /\ matrix = << >>
    /\ pc = "idle"
    /\ labels = << >>
    /\ combinations_checked = 0
    /\ best_regions = NoneRegions
    /\ best_objective = Infinity
    /\ bf_result = NotReturned
    /\ g_regions = EmptyRegions
    /\ g_sums = [dev \in Agents |-> 0]
    /\ g_assigned = {}
    /\ g_total_assigned = 0
    /\ g_iter = 0
    /\ g_early_exit = FALSE
    /\ g_result = NotReturned
    /\ ts_regions = EmptyRegions
    /\ ts_iterations = 0
    /\ ts_max_iterations = 0
    /\ ts_stage1 = EmptyRegions
    /\ ts_result = NotReturned
    /\ cc_result = FALSE

NextCC == CCRun

SpecCC == InitCC /\ [][NextCC]_vars

---------------------------------------------------------------------------
(* Properties *)

GridIsEmpty == matrix = << >> \/ matrix[1] = << >>
GridRows == Len(matrix)
GridCols == Len(matrix[1])
GridCells == GridRows * GridCols

Adjacent(a, b) ==
    \/ a[1] = b[1] /\ (a[2] - b[2] = 1 \/ b[2] - a[2] = 1)
    \/ a[2] = b[2] /\ (a[1] - b[1] = 1 \/ b[1] - a[1] = 1)

\* No split of S into two non-empty parts is without an edge between the parts.
EdgeConnected(S) ==
    \A T \in SUBSET S :
        (T # {} /\ T # S) => \E a \in T, b \in S \ T : Adjacent(a, b)

NoDuplicates(region) ==
    \A a, b \in 1 .. Len(region) : a # b => region[a] # region[b]

PairwiseDisjoint(regions) ==
    \A d1, d2 \in Agents : d1 # d2 => Range(regions[d1]) \cap Range(regions[d2]) = {}

CoversExactlyOnce(regions, n, m) ==
    /\ PairwiseDisjoint(regions)
    /\ \A dev \in Agents : NoDuplicates(regions[dev])
    /\ UNION {Range(regions[dev]) : dev \in Agents} = AllCells(n, m)

ValidPartition(regions, n, m) ==
    /\ \A dev \in Agents : Len(regions[dev]) > 0
    /\ CoversExactlyOnce(regions, n, m)
    /\ \A dev \in Agents : EdgeConnected(Range(regions[dev]))

RECURSIVE SetCost(_, _)
SetCost(mx, S) ==
    IF S = {} THEN 0
    ELSE LET c == CHOOSE c \in S : TRUE IN Cost(mx, c) + SetCost(mx, S \ {c})

ImbalanceOf(mx, regions) ==
    LET sums == [dev \in Agents |-> SumCosts(mx, regions[dev])]
    IN MaxOf(sums) - MinOf(sums)

LabelClass(lbl, dev, n, m) ==
    {<<(k - 1) \div m, (k - 1) % m>> : k \in {q \in 1 .. n * m : lbl[q] = dev}}

ValidLabelings(n, m) ==
    {lbl \in [1 .. n * m -> Agents] :
        \A dev \in Agents :
            LabelClass(lbl, dev, n, m) # {} /\ EdgeConnected(LabelClass(lbl, dev, n, m))}

LabelImbalance(mx, lbl, n, m) ==
    LET sums == [dev \in Agents |-> SetCost(mx, LabelClass(lbl, dev, n, m))]
    IN MaxOf(sums) - MinOf(sums)

\* C1: on a non-empty grid of 4 to 16 cells the partition brute_force_allocation
\* returns has four non-empty regions, pairwise disjoint, covering every cell
\* exactly once, each edge-connected.
C1_BruteForcePartitionValid ==
    (bf_result.returned /\ ~GridIsEmpty /\ 4 <= GridCells /\ GridCells <= 16)
        => ValidPartition(bf_result.regions, GridRows, GridCols)

C1_Witness ==
    /\ pc = "bf_done"
    /\ ~GridIsEmpty
    /\ GridCells = 5
    /\ bf_result.count > 0
    /\ \E dev \in Agents : Len(bf_result.regions[dev]) = 2

\* C2: when a valid labeling exists, the imbalance of the partition
\* brute_force_allocation returns is the minimum imbalance over all valid
\* labelings (all four labels used, every class edge-connected).
C2_BruteForceMinimal ==
    (pc = "bf_done" /\ ~GridIsEmpty /\ GridCells <= 16
         /\ ValidLabelings(GridRows, GridCols) # {})
        => /\ \A lbl \in ValidLabelings(GridRows, GridCols) :
                  ImbalanceOf(matrix, bf_result.regions)
                      <= LabelImbalance(matrix, lbl, GridRows, GridCols)
           /\ \E lbl \in ValidLabelings(GridRows, GridCols) :
                  /\ ImbalanceOf(matrix, bf_result.regions)
                         = LabelImbalance(matrix, lbl, GridRows, GridCols)
                  /\ \A dev \in Agents :
                         Range(bf_result.regions[dev])
                             = LabelClass(lbl, dev, GridRows, GridCols)

C2_Witness ==
    /\ pc = "bf_done"
    /\ ~GridIsEmpty
    /\ GridCells = 5
    /\ ImbalanceOf(matrix, bf_result.regions) = 1
    /\ \E lbl \in ValidLabelings(GridRows, GridCols) :
           LabelImbalance(matrix, lbl, GridRows, GridCols) = 2

\* C3: on every grid of at most 16 cells the imbalance of the brute-force
\* partition is <= the imbalance of the greedy partition and <= the imbalance of
\* the two-stage partition of the same grid.
C3_BruteForceNoWorse ==
    (bf_result.returned /\ ~GridIsEmpty /\ GridCells <= 16)
        => /\ g_result.returned
                  => ImbalanceOf(matrix, bf_result.regions)
                         <= ImbalanceOf(matrix, g_result.regions)
           /\ ts_result.returned
                  => ImbalanceOf(matrix, bf_result.regions)
                         <= ImbalanceOf(matrix, ts_result.regions)

\* C4: check_connected returns True exactly for the edge-connected lists of
\* pairwise different in-bounds cells, whichever cell is listed first; so True
\* for 0 or 1 cells and False for 2 or more cells in more than one component.
C4_CheckConnectedExact ==
    pc = "cc_done" => (cc_result <=> EdgeConnected(Range(cc_region)))

C4_Witness ==
    /\ pc = "cc_done"
    /\ Len(cc_region) >= 3
    /\ cc_result = FALSE
    /\ \E k \in 2 .. Len(cc_region) :
           \/ cc_region[k][1] < cc_region[1][1]
           \/ cc_region[k][1] = cc_region[1][1] /\ cc_region[k][2] < cc_region[1][2]
    /\ \E a, b \in Range(cc_region) : Adjacent(a, b)

\* C5: on a grid of more than 16 cells brute_force_allocation returns four empty
\* regions and a count of 0 and enumerates no labeling; on a grid of at most 16
\* cells (16 included) the guard is not taken and the enumeration runs.
C5_CapacityGuard ==
    ~GridIsEmpty
        => /\ GridCells > 16
                  => /\ pc \notin {"bf_enum", "bf_return"}
                     /\ combinations_checked = 0
                     /\ bf_result.returned => bf_result = Returned(EmptyRegions, 0)
           /\ (GridCells <= 16 /\ pc # "idle")
                  => /\ pc = "bf_enum" \/ combinations_checked >= 1
                     /\ bf_result.returned => bf_result.count >= 1

C5_Witness ==
    /\ pc = "bf_done"
    /\ ~GridIsEmpty
    /\ GridCells = 17
    /\ bf_result = Returned(EmptyRegions, 0)

\* C6: on a grid with no rows or with an empty first row each of the three
\* algorithms returns four empty regions and a count of 0.
C6_EmptyGrid ==
    GridIsEmpty
        => /\ pc \in {"idle", "bf_done", "g_done", "ts_done"}
           /\ bf_result.returned => bf_result = Returned(EmptyRegions, 0)
           /\ g_result.returned => g_result = Returned(EmptyRegions, 0)
           /\ ts_result.returned => ts_result = Returned(EmptyRegions, 0)
           /\ pc = "bf_done" => bf_result.returned
           /\ pc = "g_done" => g_result.returned
           /\ pc = "ts_done" => ts_result.returned

C6_Witness ==
    /\ matrix = << << >> >>
    /\ bf_result = Returned(EmptyRegions, 0)
    /\ g_result = Returned(EmptyRegions, 0)
    /\ ts_result = Returned(EmptyRegions, 0)

\* count = 4^k, by division (4^16 is beyond the model checker's integers)
RECURSIVE IsPow4(_, _)
IsPow4(count, k) ==
    IF k = 0 THEN count = 1
    ELSE count % 4 = 0 /\ count >= 4 /\ IsPow4(count \div 4, k - 1)

\* C7: on a non-empty grid of at most 16 cells the count brute_force_allocation
\* returns is 4^(n*m), also when no labeling is valid (fewer than 4 cells), where
\* the regions returned are four empty ones.
C7_CountsEveryLabeling ==
    (bf_result.returned /\ ~GridIsEmpty /\ GridCells <= 16)
        => /\ IsPow4(bf_result.count, GridCells)
           /\ GridCells < 4 => bf_result.regions = EmptyRegions

C7_Witness ==
    /\ pc = "bf_done"
    /\ ~GridIsEmpty
    /\ GridCells = 3
    /\ bf_result = Returned(EmptyRegions, 64)

\* C8: on a grid with n >= 2 and m >= 2 the four regions greedy_allocation
\* returns are pairwise disjoint and cover every cell exactly once.
C8_GreedyPartitionComplete ==
    (g_result.returned /\ ~GridIsEmpty /\ GridRows >= 2 /\ GridCols >= 2)
        => CoversExactlyOnce(g_result.regions, GridRows, GridCols)

C8_Witness ==
    /\ pc = "g_done"
    /\ ~GridIsEmpty
    /\ GridRows = 3
    /\ GridCols = 3
    /\ g_result.count = 5

\* C9: on a grid with n = 1 or m = 1 greedy_allocation assigns a coinciding corner
\* once: no cell is in two regions, no cell's cost is in two sums, and
\* total_assigned counts the different assigned cells.
C9_DegenerateCornersOnce ==
    (pc \in {"g_loop", "g_return", "g_done"} /\ ~GridIsEmpty
         /\ (GridRows = 1 \/ GridCols = 1))
        => /\ PairwiseDisjoint(g_regions)
           /\ g_sums[0] + g_sums[1] + g_sums[2] + g_sums[3] = SetCost(matrix, g_assigned)
           /\ g_total_assigned = Cardinality(g_assigned)

\* C10: in every state of the greedy construction, after the seeding and after
\* each growth iteration, the regions are pairwise disjoint, hold only cells
\* marked assigned, and are each edge-connected.
C10_GreedyIntermediate ==
    (pc \in {"g_loop", "g_return", "g_done"} /\ ~GridIsEmpty)
        => /\ PairwiseDisjoint(g_regions)
           /\ \A dev \in Agents : Range(g_regions[dev]) \subseteq g_assigned
           /\ \A dev \in Agents : EdgeConnected(Range(g_regions[dev]))

\* after is before with one cell taken out of one region and put in one other.
MovesOneCell(before, after) ==
    \E src, dst \in Agents :
        /\ src # dst
        /\ \E cell \in Range(before[src]) :
               /\ Range(after[src]) = Range(before[src]) \ {cell}
               /\ Len(after[src]) = Len(before[src]) - 1
               /\ Range(after[dst]) = Range(before[dst]) \cup {cell}
               /\ Len(after[dst]) = Len(before[dst]) + 1
               /\ \A dev \in Agents \ {src, dst} : after[dev] = before[dev]

\* C12: on a non-empty grid, for every max_iterations, the Stage-1 split, every
\* partition Stage 2 reaches and the returned partition have pairwise disjoint
\* regions that cover every cell exactly once, and every Stage-2 step that
\* changes the regions takes one cell out of one region and puts it in one other.
C12_TwoStageCoverKept ==
    [][~GridIsEmpty =>
          /\ pc' \in {"ts_loop", "ts_return", "ts_done"}
                 => CoversExactlyOnce(ts_regions', GridRows, GridCols)
          /\ ts_result'.returned
                 => CoversExactlyOnce(ts_result'.regions, GridRows, GridCols)
          /\ (pc = "ts_loop" /\ ts_regions' # ts_regions)
                 => MovesOneCell(ts_regions, ts_regions')]_vars

C12_Witness ==
    /\ pc = "ts_done"
    /\ ~GridIsEmpty
    /\ GridRows = 3
    /\ GridCols = 3
    /\ ts_result.count = 3
    /\ ts_result.regions # ts_stage1

\* C13: on a non-empty grid every non-empty region of the Stage-1 split is
\* edge-connected.
C13_Stage1Connected ==
    (pc \in {"ts_loop", "ts_return", "ts_done"} /\ ~GridIsEmpty)
        => \A dev \in Agents : EdgeConnected(Range(ts_stage1[dev]))

RowMajorBefore(a, b) == a[1] < b[1] \/ (a[1] = b[1] /\ a[2] < b[2])

\* C14: the Stage-1 split gives region k floor(n*m/4) cells and one more iff
\* k < n*m mod 4, so the sizes differ by at most 1 and do not increase with k,
\* and regions 0, 1, 2, 3 one after the other are the cells in row-major order.
C14_Stage1Split ==
    (pc \in {"ts_loop", "ts_return", "ts_done"} /\ ~GridIsEmpty)
        => LET size == [k \in Agents |-> Len(ts_stage1[k])]
               all == ts_stage1[0] \o ts_stage1[1] \o ts_stage1[2] \o ts_stage1[3]
           IN /\ \A k \in Agents :
                     /\ k < GridCells % 4 => size[k] = (GridCells \div 4) + 1
                     /\ ~(k < GridCells % 4) => size[k] = GridCells \div 4
              /\ \A k, q \in Agents : size[k] - size[q] <= 1
              /\ \A k, q \in Agents : k < q => size[k] >= size[q]
              /\ Len(all) = GridCells
              /\ \A p \in 1 .. Len(all) : InBounds(all[p], GridRows, GridCols)
              /\ \A p \in 1 .. Len(all) - 1 : RowMajorBefore(all[p], all[p + 1])

C14_Witness ==
    /\ pc = "ts_loop"
    /\ ~GridIsEmpty
    /\ GridCells = 7
    /\ ts_regions = ts_stage1
    /\ Len(ts_stage1[2]) = 2
    /\ Len(ts_stage1[3]) = 1

\* C15: over the iterations of Stage 2 the imbalance of the current partition
\* never grows: an iteration that applies a move makes it strictly smaller, one
\* that applies none leaves it as it is; and the returned partition's imbalance
\* is at most that of the Stage-1 split, for every grid and max_iterations.
C15_ImbalanceNonIncreasing ==
    [][~GridIsEmpty =>
          /\ (pc = "ts_loop" /\ pc' = "ts_loop")
                 => /\ ts_regions' # ts_regions
                    /\ ImbalanceOf(matrix, ts_regions') < ImbalanceOf(matrix, ts_regions)
          /\ (pc = "ts_loop" /\ pc' = "ts_return")
                 => ImbalanceOf(matrix, ts_regions') = ImbalanceOf(matrix, ts_regions)
          /\ (pc \in {"ts_loop", "ts_return", "ts_done"})
                 => ImbalanceOf(matrix, ts_regions') <= ImbalanceOf(matrix, ts_regions)
          /\ ts_result'.returned
                 => ImbalanceOf(matrix, ts_result'.regions)
                        <= ImbalanceOf(matrix, ts_stage1')]_vars

C15_Witness ==
    /\ matrix = Example3x3
    /\ ts_result.returned
    /\ ts_result.count >= 2
    /\ ImbalanceOf(matrix, ts_result.regions) < ImbalanceOf(matrix, ts_stage1)

\* The relocations of one cell to a region it touches: a cell of region src with a
\* 4-neighbour in another region dst.
Relocations(regions) ==
    {r \in [cell : AllCells(GridRows, GridCols), src : Agents, dst : Agents] :
        /\ r.src # r.dst
        /\ r.cell \in Range(regions[r.src])
        /\ \E c \in Range(regions[r.dst]) : Adjacent(r.cell, c)}

Relocate(regions, r) ==
    [dev \in Agents |->
        IF dev = r.src THEN SelectSeq(regions[dev], LAMBDA c : c # r.cell)
        ELSE IF dev = r.dst THEN Append(regions[dev], r.cell)
        ELSE regions[dev]]

Reduction(regions, r) ==
    ImbalanceOf(matrix, regions) - ImbalanceOf(matrix, Relocate(regions, r))

HasImprovingRelocation(regions) ==
    \E r \in Relocations(regions) : Reduction(regions, r) > 0

\* C16: Stage 2 starts improving with the counter at 0; an iteration runs only
\* below max_iterations, adds 1 to the counter, and either applies exactly one
\* move and goes on, or, exactly when no relocation improves, applies none and
\* stops as converged; the loop is otherwise left only with the counter at
\* max_iterations (budget exhausted); after either stop the regions no longer
\* change.  The returned count is the counter: at most max_iterations, and 0 when
\* max_iterations <= 0.
C16_Stage2StateMachine ==
    [][~GridIsEmpty =>
          /\ (pc # "ts_loop" /\ pc' = "ts_loop")
                 => ts_iterations' = 0 /\ ts_regions' = ts_stage1'
          /\ (pc = "ts_loop" /\ pc' \in {"ts_loop", "ts_return"})
                 => /\ ts_iterations < ts_max_iterations
                    /\ ts_iterations' = ts_iterations + 1
                    /\ pc' = "ts_return" <=> ~HasImprovingRelocation(ts_regions)
                    /\ pc' = "ts_loop" => MovesOneCell(ts_regions, ts_regions')
                    /\ pc' = "ts_return" => ts_regions' = ts_regions
          /\ (pc = "ts_loop" /\ pc' = "ts_done")
                 => /\ ts_iterations >= ts_max_iterations
                    /\ ts_max_iterations >= 0 => ts_iterations = ts_max_iterations
          /\ pc = "ts_return" => pc' = "ts_done"
          /\ (pc \in {"ts_return", "ts_done"} \/ pc' = "ts_done")
                 => ts_regions' = ts_regions /\ ts_iterations' = ts_iterations
          /\ ts_result'.returned
                 => /\ ts_result'.count = ts_iterations
                    /\ ts_result'.regions = ts_regions
                    /\ ts_max_iterations >= 0 => ts_result'.count <= ts_max_iterations
                    /\ ts_max_iterations <= 0 => ts_result'.count = 0]_vars

C16_Witness ==
    /\ matrix = Example3x3
    /\ ts_max_iterations = DefaultMaxIterations
    /\ pc = "ts_done"
    /\ ts_result = Returned(
           [dev \in Agents |->
               CASE dev = 0 -> << <<0, 0>>, <<0, 1>>, <<0, 2>>, <<1, 2>> >>
                 [] dev = 1 -> << <<1, 0>>, <<1, 1>> >>
                 [] dev = 2 -> << <<2, 0>>, <<2, 1>> >>
                 [] dev = 3 -> << <<2, 2>> >>], 3)

\* C17: on the uniform 3x3 grid of 5s brute_force_allocation returns, after
\* checking 4^9 = 262144 combinations, a valid partition of imbalance 5, and no
\* split of the grid into 4 non-empty connected regions has a smaller imbalance;
\* every best candidate kept during the enumeration is a valid partition too.
C17_Uniform3x3 ==
    /\ (matrix = Uniform3x3 /\ bf_result.returned)
           => /\ bf_result.count = 262144
              /\ ValidPartition(bf_result.regions, 3, 3)
              /\ ImbalanceOf(matrix, bf_result.regions) = 5
              /\ \A lbl \in ValidLabelings(3, 3) : LabelImbalance(matrix, lbl, 3, 3) >= 5
    /\ (matrix = Uniform3x3 /\ pc = "bf_enum" /\ best_regions # NoneRegions)
           => ValidPartition(best_regions, 3, 3)

C17_Witness ==
    /\ matrix = Uniform3x3
    /\ pc = "bf_done"
    /\ bf_result = Returned(
           [dev \in Agents |->
               CASE dev = 0 -> << <<0, 0>>, <<0, 1>>, <<0, 2>> >>
                 [] dev = 1 -> << <<1, 0>>, <<1, 1>> >>
                 [] dev = 2 -> << <<1, 2>>, <<2, 2>> >>
                 [] dev = 3 -> << <<2, 0>>, <<2, 1>> >>], 262144)

\* C18: the count greedy_allocation returns is the number of cells in the four
\* returned regions less the 4 seeds; on a grid with n, m >= 2 it is n*m - 4 and
\* the loop is never left by its break; on [[1,2],[3,4]] the result is the four
\* corners, one per developer, sums 1, 2, 3, 4, imbalance 3, count 0.
C18_GreedyIterationCount ==
    /\ (pc \in {"g_loop", "g_return", "g_done"} /\ ~GridIsEmpty
            /\ GridRows >= 2 /\ GridCols >= 2)
           => ~g_early_exit
    /\ (g_result.returned /\ ~GridIsEmpty)
           => /\ g_result.count
                     = Len(g_result.regions[0]) + Len(g_result.regions[1])
                           + Len(g_result.regions[2]) + Len(g_result.regions[3]) - 4
              /\ (GridRows >= 2 /\ GridCols >= 2) => g_result.count = GridCells - 4
    /\ (g_result.returned /\ matrix = Example2x2)
           => /\ g_result.count = 0
              /\ g_result.regions
                     = [dev \in Agents |->
                           CASE dev = 0 -> << <<0, 0>> >>
                             [] dev = 1 -> << <<0, 1>> >>
                             [] dev = 2 -> << <<1, 0>> >>
                             [] dev = 3 -> << <<1, 1>> >>]
              /\ [dev \in Agents |-> SumCosts(matrix, g_result.regions[dev])]
                     = [dev \in Agents |-> dev + 1]
              /\ g_sums = [dev \in Agents |-> dev + 1]
              /\ ImbalanceOf(matrix, g_result.regions) = 3

C18_Witness ==
    /\ pc = "g_done"
    /\ ~GridIsEmpty
    /\ GridRows = 2
    /\ GridCols = 4
    /\ ~g_early_exit
    /\ g_result.count = 4

\* The unassigned cells of the grid with a 4-neighbour in developer dev's region
FreeNeighbours(dev) ==
    {c \in AllCells(GridRows, GridCols) \ g_assigned :
        \E r \in Range(g_regions[dev]) : Adjacent(c, r)}

\* dev has the smallest sum, and the lowest index among those that have it
IsMinSumAgent(dev) ==
    \A e \in Agents : g_sums[dev] < g_sums[e] \/ (g_sums[dev] = g_sums[e] /\ dev <= e)

IsReceiver(dev) ==
    IF \E d \in Agents : IsMinSumAgent(d) /\ FreeNeighbours(d) # {}
    THEN IsMinSumAgent(dev)
    ELSE FreeNeighbours(dev) # {} /\ \A e \in Agents : e < dev => FreeNeighbours(e) = {}

SumsWith(dev, cell) == [g_sums EXCEPT ![dev] = @ + Cost(matrix, cell)]

Spread(sums) == MaxOf(sums) - MinOf(sums)

\* C19: every growth iteration of greedy_allocation assigns exactly one cell: to
\* the developer of the smallest sum (lowest index on ties) if that one has an
\* adjacent free cell, otherwise to the lowest-indexed developer that has one;
\* the cell is in bounds, was unassigned, is a 4-neighbour of a cell of that
\* developer's region and gives the smallest resulting imbalance among that
\* developer's adjacent free cells; that developer's sum grows by the cell's cost.
C19_GreedyStep ==
    [][(pc = "g_loop" /\ g_iter' # g_iter)
          => /\ pc' = "g_loop"
             /\ g_iter' = g_iter + 1
             /\ \E dev \in Agents, cell \in AllCells(GridRows, GridCols) :
                    /\ IsReceiver(dev)
                    /\ InBounds(cell, GridRows, GridCols)
                    /\ cell \notin g_assigned
                    /\ cell \in FreeNeighbours(dev)
                    /\ \A other \in FreeNeighbours(dev) :
                           Spread(SumsWith(dev, cell)) <= Spread(SumsWith(dev, other))
                    /\ g_regions' = [g_regions EXCEPT ![dev] = Append(@, cell)]
                    /\ g_assigned' = g_assigned \cup {cell}
                    /\ g_sums' = SumsWith(dev, cell)]_vars

C19_Witness ==
    /\ pc = "g_loop"
    /\ ~GridIsEmpty
    /\ GridRows = 3
    /\ GridCols = 3
    /\ g_iter = 3
    /\ Len(g_regions[0]) = 1
    /\ Len(g_regions[3]) = 3

\* C20: the move a Stage-2 iteration applies relocates one cell of a region to
\* another region it touches, with an imbalance reduction that is > 0 and the
\* largest of all such relocations in the current partition; and when Stage 2
\* stops converged, no such relocation of the returned partition lowers the
\* imbalance.
C20_BestRelocation ==
    [][~GridIsEmpty =>
          /\ (pc = "ts_loop" /\ ts_regions' # ts_regions)
                 => \E r \in Relocations(ts_regions) :
                        /\ ts_regions' = Relocate(ts_regions, r)
                        /\ Reduction(ts_regions, r) > 0
                        /\ \A other \in Relocations(ts_regions) :
                               Reduction(ts_regions, other) <= Reduction(ts_regions, r)
          /\ (pc = "ts_loop" /\ pc' = "ts_return")
                 => ~HasImprovingRelocation(ts_regions')
          /\ (pc = "ts_return" /\ ts_result'.returned)
                 => ~HasImprovingRelocation(ts_result'.regions)]_vars

C20_Witness ==
    /\ pc = "ts_done"
    /\ ~GridIsEmpty
    /\ GridRows = 2
    /\ GridCols = 4
    /\ ts_result.count >= 2
    /\ ts_result.count < ts_max_iterations
    /\ ~HasImprovingRelocation(ts_result.regions)

\* Lexicographic order of label tuples, the first cell (0,0) most significant
LexLess(a, b) ==
    \E k \in 1 .. Len(a) : a[k] < b[k] /\ \A q \in 1 .. k - 1 : a[q] = b[q]

\* b comes right after a: the last label below 3 goes up by one and the labels
\* after it, all 3, start again at 0.
LexSuccessor(a, b) ==
    /\ Len(b) = Len(a)
    /\ \E k \in 1 .. Len(a) :
           /\ b[k] = a[k] + 1
           /\ \A q \in 1 .. k - 1 : b[q] = a[q]
           /\ \A q \in k + 1 .. Len(a) : a[q] = 3 /\ b[q] = 0

\* The labeling a list of regions stands for: cell number k, in row-major order,
\* has the label of the region it is in.
LabelingOf(regions, n, m) ==
    [k \in 1 .. n * m |->
        CHOOSE dev \in Agents : <<(k - 1) \div m, (k - 1) % m>> \in Range(regions[dev])]

\* C21: brute_force_allocation goes through the labelings in lexicographic order
\* (labels 0..3 ascending, cell (0,0) most significant, the last cell fastest),
\* starting at all 0; the stored best is replaced only by a strictly smaller
\* imbalance; and the returned partition is, among the valid labelings of
\* minimum imbalance, the first in that order, its regions listing their cells
\* in row-major order.
C21_FirstFoundKept ==
    [][/\ (pc # "bf_enum" /\ pc' = "bf_enum")
              => \A k \in 1 .. Len(labels') : labels'[k] = 0
       /\ (pc = "bf_enum" /\ pc' = "bf_enum")
              => LexSuccessor(labels, labels') /\ LexLess(labels, labels')
       /\ (pc = "bf_enum" /\ pc' = "bf_return")
              => \A k \in 1 .. Len(labels) : labels[k] = 3
       /\ (pc = "bf_enum" /\ best_regions # NoneRegions /\ best_regions' # best_regions)
              => ImbalanceOf(matrix, best_regions') < ImbalanceOf(matrix, best_regions)
       /\ (pc = "bf_return" /\ bf_result'.returned /\ best_regions # NoneRegions)
              => LET n == GridRows
                     m == GridCols
                     got == LabelingOf(bf_result'.regions, n, m)
                 IN /\ got \in ValidLabelings(n, m)
                    /\ \A dev \in Agents :
                           /\ Range(bf_result'.regions[dev]) = LabelClass(got, dev, n, m)
                           /\ \A p \in 1 .. Len(bf_result'.regions[dev]) - 1 :
                                  RowMajorBefore(bf_result'.regions[dev][p],
                                                 bf_result'.regions[dev][p + 1])
                    /\ \A lbl \in ValidLabelings(n, m) :
                           \/ LabelImbalance(matrix, got, n, m)
                                  < LabelImbalance(matrix, lbl, n, m)
                           \/ /\ LabelImbalance(matrix, got, n, m)
                                     = LabelImbalance(matrix, lbl, n, m)
                              /\ (lbl = got \/ LexLess(got, lbl))]_vars

\* A returned partition of minimum imbalance that a later valid labeling equals
C21_Witness ==
    /\ pc = "bf_done"
    /\ ~GridIsEmpty
    /\ GridCells = 5
    /\ bf_result.regions # EmptyRegions
    /\ \E lbl \in ValidLabelings(GridRows, GridCols) :
           /\ LexLess(LabelingOf(bf_result.regions, GridRows, GridCols), lbl)
           /\ LabelImbalance(matrix, lbl, GridRows, GridCols)
                  = ImbalanceOf(matrix, bf_result.regions)

\* C22: on a grid of at least 4 cells, costs >= 0, the Stage-1 split has four
\* non-empty regions, every partition Stage 2 reaches and the one returned have
\* four non-empty regions, and no relocation of the only cell of a region lowers
\* the imbalance.
C22_TwoStageNonEmpty ==
    /\ (pc \in {"ts_loop", "ts_return", "ts_done"} /\ ~GridIsEmpty /\ GridCells >= 4)
           => /\ \A dev \in Agents : Len(ts_stage1[dev]) > 0
              /\ \A dev \in Agents : Len(ts_regions[dev]) > 0
              /\ \A r \in Relocations(ts_regions) :
                     Len(ts_regions[r.src]) = 1 => Reduction(ts_regions, r) <= 0
    /\ (ts_result.returned /\ ~GridIsEmpty /\ GridCells >= 4)
           => \A dev \in Agents : Len(ts_result.regions[dev]) > 0

C22_Witness ==
    /\ pc = "ts_loop"
    /\ ~GridIsEmpty
    /\ GridCells >= 4
    /\ ts_iterations >= 1
    /\ ts_regions # ts_stage1
    /\ \E r \in Relocations(ts_regions) :
           Len(ts_regions[r.src]) = 1 /\ Reduction(ts_regions, r) < 0

\* C23: the imbalance is an integer >= 0 and the moves applied so far plus the
\* current imbalance never exceed the Stage-1 imbalance; so with max_iterations
\* above the Stage-1 imbalance the loop is never left for want of budget: it is
\* left by an iteration that finds no improving move, after at most as many moves
\* as the Stage-1 imbalance.
C23_Stage2Terminates ==
    [][~GridIsEmpty =>
          /\ pc' = "ts_loop"
                 => /\ ImbalanceOf(matrix, ts_regions') >= 0
                    /\ ts_iterations' + ImbalanceOf(matrix, ts_regions')
                           <= ImbalanceOf(matrix, ts_stage1')
          /\ pc' = "ts_return"
                 => (ts_iterations' - 1) + ImbalanceOf(matrix, ts_regions')
                        <= ImbalanceOf(matrix, ts_stage1')
          /\ (pc' = "ts_loop" /\ ts_max_iterations' > ImbalanceOf(matrix, ts_stage1'))
                 => ts_iterations' < ts_max_iterations'
          /\ (ts_result'.returned /\ ~ts_result.returned
                  /\ ts_max_iterations > ImbalanceOf(matrix, ts_stage1))
                 => /\ pc = "ts_return"
                    /\ ts_result'.count >= 1
                    /\ ts_result'.count - 1 <= ImbalanceOf(matrix, ts_stage1)
                    /\ ~HasImprovingRelocation(ts_result'.regions)]_vars

C23_Witness ==
    /\ matrix = Example4x4
    /\ ts_max_iterations = DefaultMaxIterations
    /\ pc = "ts_done"
    /\ ts_result.count = 5
    /\ ImbalanceOf(matrix, ts_stage1) = 240
    /\ ImbalanceOf(matrix, ts_result.regions) = 70

====
